---- MODULE Spec2Model ----
(***************************************************************************)
(* Type/occurrence dispatch of the heterogeneous container adaptors.       *)
(*                                                                         *)
(* An aggregate is a chain of nodes, one per declared type, that share one *)
(* run-time occurrence counter.  Two chain layouts exist in the sources:   *)
(*   "heterovector": heterovector<T, Types...> nodes followed by the       *)
(*       container-less terminator heterovector<>  (heterovector.hpp);     *)
(*   "heterodeque":  heterodeque<T, Types...> nodes whose last node is the *)
(*       base case heterodeque<T>  (heterodeque.hpp; heterolist,           *)
(*       heteroforward_list, heterostack and heterogeneous::vector repeat  *)
(*       the same text).                                                   *)
(* Every type/occurrence-qualified method is a textual copy of the same    *)
(* walk; container() is modelled and the forwarded container call is       *)
(* applied at the node the walk stops at.                                  *)
(***************************************************************************)
EXTENDS Integers, Sequences, FiniteSets, TLC

\* ---------------------------------------------------------------- bounds
\* longest TypeList enumerated exhaustively
MaxLen == 2
\* largest occurrence index N a caller passes
MaxN == 1
\* cap on the number of elements held by all backing containers together
MaxTotal == 2
\* cap on the shared counter (size_t in the code; it only grows by leaks)
MaxCounter == 2
\* longest type-erased sequence enumerated exhaustively
MaxSize == 3
\* largest filtered index a caller passes to the adaptor
MaxIndex == 3
\* number of cells the free store hands out before the program ends
MaxAddr == 6
\* most elements a caller pushes into one container of an object
MaxFill == 1

\* ------------------------------------------------------------ vocabulary
Kinds == {"heterovector", "heterodeque"}

TypeNames == {"int", "double", "string", "float"}

\* two distinguishable element values
Values == {1, 2}

ExampleTypeList == <<"int", "double", "string", "int", "int", "double", "string">>

RECURSIVE SeqsOfLen(_, _)
SeqsOfLen(S, n) ==
    IF n = 0 THEN {<<>>}
    ELSE {Append(s, x) : s \in SeqsOfLen(S, n - 1), x \in S}

SeqsUpTo(S, n) == UNION {SeqsOfLen(S, k) : k \in 0..n}

\* The walk compares types for equality only, so the TypeLists are
\* enumerated up to a renaming of the types: the head is called int, a
\* second type double.  float is declared by none of them.
TypeLists ==
    {tl \in SeqsUpTo({"int", "double"}, MaxLen) : tl # <<>> /\ tl[1] = "int"}

Range(f) == {f[i] : i \in DOMAIN f}

\* the types a caller asks for: the declared ones and an undeclared one
Asked(tl) == Range(tl) \cup {"float"}

\* the sequences passed to set() and to the range overload of assign()
Contents == {<<>>, <<1>>, <<2>>}

RECURSIVE SumLen(_, _)
SumLen(c, i) == IF i = 0 THEN 0 ELSE Len(c[i]) + SumLen(c, i - 1)

Total(c) == SumLen(c, Len(c))

\* ------------------------------------------------------------------ state
\* object: the sequence of type-erased elements an adaptor was built on
\* walker: the dispatch walks in progress, one per thread
\* aggregate, heap: the aggregates a and b as objects (the pointers their
\* nodes hold) and the allocations those pointers refer to
VARIABLES kind, types, container_, counter_, last, object, walker,
          aggregate, heap

vars == <<kind, types, container_, counter_, last, object, walker,
          aggregate, heap>>

\* the threads that call into one aggregate
Threads == {1, 2}

\* a thread that is not inside a call
Idle == [pc |-> "idle", U |-> "none", N |-> 0, node |-> 0, c0 |-> 0,
         seen |-> 0, alone |-> TRUE]

NoWalker == [t \in Threads |-> Idle]

\* the names of the aggregate objects of a program
Names == {"a", "b"}

\* an aggregate object that is not constructed; an object has one lifetime:
\* once destroyed it is gone, its dangling pointers still in place
NoObject == [live |-> FALSE, container_ |-> <<>>, counter_ |-> 0,
             gone |-> FALSE]

NoAggregate == [x \in Names |-> NoObject]

NoHeap == <<>>

\* last: the most recent public call as its caller sees it (method, template
\* arguments, pushed value, how it ended, value handed back), together with
\* the node the walk stopped at, *counter_ on entry (c0) and the nodes whose
\* container differs from what it was on entry (delta)
NoCall == [op |-> "none", U |-> "none", N |-> 0, val |-> 0, c0 |-> 0,
           outcome |-> "none", node |-> 0, ret |-> "void", delta |-> {}]

\* ------------------------------------------------- the dispatch walk
\* result of a walk: how it ended, the node it stopped at (0: none) and the
\* value it leaves in *counter_
Found(i) == [outcome |-> "ok", node |-> i, counter |-> 0]

Thrown(what, c) == [outcome |-> what, node |-> 0, counter |-> c]

\* heterovector<>::container(): throws, *counter_ is not touched
heterovector_end_container(c) == Thrown("invalid_argument", c)

\* variant: the matching node returns without writing 0 to *counter_
RECURSIVE heterovector_container_no_reset(_, _, _, _, _)
heterovector_container_no_reset(tl, i, c, U, N) ==
    IF i > Len(tl) THEN heterovector_end_container(c)
    ELSE IF tl[i] = U /\ c = N THEN [outcome |-> "ok", node |-> i, counter |-> c]
    ELSE heterovector_container_no_reset(tl, i + 1,
                                         IF tl[i] = U THEN c + 1 ELSE c, U, N)

\* heterovector<T, Types...>::container<U, N>() at node i with *counter_ = c
RECURSIVE heterovector_container(_, _, _, _, _)
heterovector_container(tl, i, c, U, N) ==
    IF i > Len(tl) THEN heterovector_end_container(c)
    ELSE IF tl[i] = U /\ c = N THEN Found(i)
    ELSE heterovector_container(tl, i + 1, IF tl[i] = U THEN c + 1 ELSE c, U, N)

\* variant: the last node makes the container call, then throws
heterodeque_base_container_acts(tl, i, c, U, N) ==
    IF tl[i] = U /\ c = N THEN Found(i)
    ELSE [outcome |-> "invalid_argument", node |-> i, counter |-> 0]

\* heterodeque<T>::container<U, N>(): the last node
heterodeque_base_container(tl, i, c, U, N) ==
    IF tl[i] = U /\ c = N THEN Found(i)
    ELSE Thrown("invalid_argument", 0)

\* heterodeque<T, Types...>::container<U, N>() at node i with *counter_ = c
RECURSIVE heterodeque_container(_, _, _, _, _)
heterodeque_container(tl, i, c, U, N) ==
    IF i = Len(tl) THEN heterodeque_base_container(tl, i, c, U, N)
    ELSE IF tl[i] = U /\ c = N THEN Found(i)
    ELSE heterodeque_container(tl, i + 1, IF tl[i] = U THEN c + 1 ELSE c, U, N)

\* the walk of the aggregate at hand, entered at its head
Walk(k, tl, c, U, N) ==
    IF k = "heterovector" THEN heterovector_container(tl, 1, c, U, N)
    ELSE heterodeque_container(tl, 1, c, U, N)

\* ------------------------------------------------------- type<N>()
\* heterovector<>::type<N>(): throws, *counter_ is not touched
heterovector_end_type(c) == Thrown("invalid_argument", c)

\* heterovector<T, Types...>::type<N>(): every node counts
RECURSIVE heterovector_type(_, _, _, _)
heterovector_type(tl, i, c, N) ==
    IF i > Len(tl) THEN heterovector_end_type(c)
    ELSE IF c = N THEN Found(i)
    ELSE heterovector_type(tl, i + 1, c + 1, N)

\* heterodeque<T>::type<N>()
heterodeque_base_type(i, c, N) ==
    IF c = N THEN Found(i) ELSE Thrown("out_of_range", 0)

\* heterodeque<T, Types...>::type<N>()
RECURSIVE heterodeque_type(_, _, _, _)
heterodeque_type(tl, i, c, N) ==
    IF i = Len(tl) THEN heterodeque_base_type(i, c, N)
    ELSE IF c = N THEN Found(i)
    ELSE heterodeque_type(tl, i + 1, c + 1, N)

WalkType(k, tl, c, N) ==
    IF k = "heterovector" THEN heterovector_type(tl, 1, c, N)
    ELSE heterodeque_type(tl, 1, c, N)

\* ------------------------------- assign<U, N>(first, last), range overload
\* the range overload tests the type only: neither N nor *counter_ is read
\* or written
heterovector_end_assign(c) == Thrown("invalid_argument", c)

RECURSIVE heterovector_assign(_, _, _, _)
heterovector_assign(tl, i, c, U) ==
    IF i > Len(tl) THEN heterovector_end_assign(c)
    ELSE IF tl[i] = U THEN [outcome |-> "ok", node |-> i, counter |-> c]
    ELSE heterovector_assign(tl, i + 1, c, U)

heterodeque_base_assign(tl, i, c, U) ==
    IF tl[i] = U THEN [outcome |-> "ok", node |-> i, counter |-> c]
    ELSE Thrown("invalid_argument", c)

RECURSIVE heterodeque_assign(_, _, _, _)
heterodeque_assign(tl, i, c, U) ==
    IF i = Len(tl) THEN heterodeque_base_assign(tl, i, c, U)
    ELSE IF tl[i] = U THEN [outcome |-> "ok", node |-> i, counter |-> c]
    ELSE heterodeque_assign(tl, i + 1, c, U)

WalkAssign(k, tl, c, U) ==
    IF k = "heterovector" THEN heterovector_assign(tl, 1, c, U)
    ELSE heterodeque_assign(tl, 1, c, U)

\* ------------------- insert<U, N>(position, first, last), range overload
\* heterovector<>::insert(position, first, last): throws, *counter_ is not
\* touched
heterovector_end_insert(c) == Thrown("invalid_argument", c)

\* heterovector<T, Types...>::insert(position, first, last) tests the type
\* only, as the range overload of assign does
RECURSIVE heterovector_insert(_, _, _, _)
heterovector_insert(tl, i, c, U) ==
    IF i > Len(tl) THEN heterovector_end_insert(c)
    ELSE IF tl[i] = U THEN [outcome |-> "ok", node |-> i, counter |-> c]
    ELSE heterovector_insert(tl, i + 1, c, U)

\* heterodeque<T>::insert(position, first, last) reads N and the counter
heterodeque_base_insert(tl, i, c, U, N) ==
    IF tl[i] = U /\ c = N THEN Found(i)
    ELSE Thrown("invalid_argument", 0)

\* heterodeque<T, Types...>::insert(position, first, last)
RECURSIVE heterodeque_insert(_, _, _, _, _)
heterodeque_insert(tl, i, c, U, N) ==
    IF i = Len(tl) THEN heterodeque_base_insert(tl, i, c, U, N)
    ELSE IF tl[i] = U /\ c = N THEN Found(i)
    ELSE heterodeque_insert(tl, i + 1, IF tl[i] = U THEN c + 1 ELSE c, U, N)

WalkInsert(k, tl, c, U, N) ==
    IF k = "heterovector" THEN heterovector_insert(tl, 1, c, U)
    ELSE heterodeque_insert(tl, 1, c, U, N)

\* ------------------------------------------- multiplicity<U>(), contains<U>()
\* private heterovector<T, Types...>::multiplicity<U>(size_t& val): the
\* tail is summed first, then this node adds 1 on a match;
\* heterovector<>::multiplicity<U>(size_t&) leaves val alone
RECURSIVE heterovector_multiplicity_val(_, _, _, _)
heterovector_multiplicity_val(tl, i, U, val) ==
    IF i > Len(tl) THEN val
    ELSE LET v == heterovector_multiplicity_val(tl, i + 1, U, val)
         IN  IF tl[i] = U THEN v + 1 ELSE v

\* variant: the head sums the tail and forgets its own type
heterovector_multiplicity_tail_only(tl, U) ==
    heterovector_multiplicity_val(tl, 2, U, 0)

\* public heterovector<T, Types...>::multiplicity<U>(), called on the head
heterovector_multiplicity(tl, U) ==
    LET result == heterovector_multiplicity_val(tl, 2, U, 0)
    IN  IF tl[1] = U THEN result + 1 ELSE result

\* private heterodeque<T>::multiplicity<U>(size_t& val)
heterodeque_base_multiplicity_val(tl, i, U, val) ==
    IF tl[i] = U THEN val + 1 ELSE val

\* private heterodeque<T, Types...>::multiplicity<U>(size_t& val)
RECURSIVE heterodeque_multiplicity_val(_, _, _, _)
heterodeque_multiplicity_val(tl, i, U, val) ==
    IF i = Len(tl) THEN heterodeque_base_multiplicity_val(tl, i, U, val)
    ELSE LET v == heterodeque_multiplicity_val(tl, i + 1, U, val)
         IN  IF tl[i] = U THEN v + 1 ELSE v

\* public heterodeque<T>::multiplicity<U>() (single-type aggregate)
heterodeque_base_multiplicity(tl, U) == IF tl[1] = U THEN 1 ELSE 0

\* public heterodeque<T, Types...>::multiplicity<U>(), called on the head
heterodeque_multiplicity(tl, U) ==
    IF Len(tl) = 1 THEN heterodeque_base_multiplicity(tl, U)
    ELSE LET result == heterodeque_multiplicity_val(tl, 2, U, 0)
         IN  IF tl[1] = U THEN result + 1 ELSE result

Multiplicity(k, tl, U) ==
    IF k = "heterovector" THEN heterovector_multiplicity(tl, U)
    ELSE heterodeque_multiplicity(tl, U)

\* variant: a node answers for itself and never asks next()
heterovector_contains_self_only(tl, i, U) == i <= Len(tl) /\ tl[i] = U

\* heterovector<T, Types...>::contains<U>(); heterovector<>::contains is false
RECURSIVE heterovector_contains(_, _, _)
heterovector_contains(tl, i, U) ==
    IF i > Len(tl) THEN FALSE
    ELSE IF tl[i] = U THEN TRUE
    ELSE heterovector_contains(tl, i + 1, U)

\* heterodeque<T>::contains<U>()
heterodeque_base_contains(tl, i, U) == (tl[i] = U)

\* heterodeque<T, Types...>::contains<U>()
RECURSIVE heterodeque_contains(_, _, _)
heterodeque_contains(tl, i, U) ==
    IF i = Len(tl) THEN heterodeque_base_contains(tl, i, U)
    ELSE IF tl[i] = U THEN TRUE
    ELSE heterodeque_contains(tl, i + 1, U)

Contains(k, tl, U) ==
    IF k = "heterovector" THEN heterovector_contains(tl, 1, U)
    ELSE heterodeque_contains(tl, 1, U)

\* ------------------------------------------------------------- size()
\* private heterovector<T, Types...>::size(size_t& val);
\* heterovector<>::size(size_t&) leaves val alone
RECURSIVE heterovector_size_val(_, _, _)
heterovector_size_val(tl, i, val) ==
    IF i > Len(tl) THEN val ELSE heterovector_size_val(tl, i + 1, val + 1)

\* public heterovector<T, Types...>::size(): the number of declared types
heterovector_size(tl) == heterovector_size_val(tl, 2, 1)

\* private heterodeque<T, Types...>::size(size_t& val), heterodeque<T> last
RECURSIVE heterodeque_size_val(_, _, _)
heterodeque_size_val(tl, i, val) ==
    IF i = Len(tl) THEN val + 1 ELSE heterodeque_size_val(tl, i + 1, val + 1)

\* public heterodeque<T, Types...>::size() and heterodeque<T>::size()
heterodeque_size(tl) ==
    IF Len(tl) = 1 THEN 1 ELSE heterodeque_size_val(tl, 2, 1)

Size(k, tl) ==
    IF k = "heterovector" THEN heterovector_size(tl) ELSE heterodeque_size(tl)

\* ------------------------------------- heterogeneous::vector::for_each
\* the nodes on whose container fn is called, in the order of the calls
\* vector<T>::for_each<U>(fn): the last node
vector_base_for_each_U(tl, i, U, calls) ==
    IF tl[i] = U THEN Append(calls, i) ELSE calls

\* variant: the walk ends at the first node of type U
RECURSIVE vector_for_each_U_first(_, _, _, _)
vector_for_each_U_first(tl, i, U, calls) ==
    IF i = Len(tl) THEN vector_base_for_each_U(tl, i, U, calls)
    ELSE IF tl[i] = U THEN Append(calls, i)
    ELSE vector_for_each_U_first(tl, i + 1, U, calls)

\* vector<T, Types...>::for_each<U>(fn)
RECURSIVE vector_for_each_U(_, _, _, _)
vector_for_each_U(tl, i, U, calls) ==
    IF i = Len(tl) THEN vector_base_for_each_U(tl, i, U, calls)
    ELSE vector_for_each_U(tl, i + 1, U,
                           IF tl[i] = U THEN Append(calls, i) ELSE calls)

\* vector<T>::for_each(fn)
vector_base_for_each(tl, i, calls) == Append(calls, i)

\* vector<T, Types...>::for_each(fn)
RECURSIVE vector_for_each(_, _, _)
vector_for_each(tl, i, calls) ==
    IF i = Len(tl) THEN vector_base_for_each(tl, i, calls)
    ELSE vector_for_each(tl, i + 1, Append(calls, i))

\* --------------------------- the forwarded calls on the node's container
vec_push_back(s, v) == Append(s, v)

vec_pop_back(s) == SubSeq(s, 1, Len(s) - 1)

vec_back(s) == s[Len(s)]

vec_size(s) == Len(s)

vec_clear(s) == <<>>

vec_set(s, x) == x

vec_assign(s, x) == x

\* insert(position, first, last) with position = begin() + off
vec_insert(s, off, x) == SubSeq(s, 1, off) \o x \o SubSeq(s, off + 1, Len(s))

\* variant: operator[] in place of at(): no range check
vec_at_unchecked(s, n) ==
    [outcome |-> "ok", ret |-> IF n < Len(s) THEN s[n + 1] ELSE 0]

\* container_type<U>::at(n): the element, or std::out_of_range
vec_at(s, n) ==
    IF n < Len(s) THEN [outcome |-> "ok", ret |-> s[n + 1]]
    ELSE [outcome |-> "out_of_range", ret |-> "void"]

\* variant: one container per declared type, shared by its nodes
AtNodesOfType(tl, c, node, new) ==
    [i \in DOMAIN c |-> IF tl[i] = tl[node] THEN new ELSE c[i]]

\* the container call is made on the container_ of the node the walk
\* stopped at, and on no other member
AtNode(tl, c, node, new) == [c EXCEPT ![node] = new]

\* ------------------------------------------------------------------- Init
\* the default constructor: one empty container per declared type, one
\* counter cell set to 0 and shared by every node
Init ==
    /\ kind \in Kinds
    /\ types \in TypeLists
    /\ container_ = [i \in 1..Len(types) |-> <<>>]
    /\ counter_ = 0
    /\ last = NoCall
    /\ object = <<>>
    /\ walker = NoWalker
    /\ aggregate = NoAggregate
    /\ heap = NoHeap

\* ---------------------------------------------------------------- actions
\* contents of the container the walk r stopped at
Target(r) == IF r.outcome = "ok" THEN container_[r.node] ELSE <<>>

\* the nodes whose container a step has changed
Changed == {i \in DOMAIN container_ : container_'[i] # container_[i]}

\* leaving a public method: r is the walk's result, new the contents of the
\* target container after the forwarded call, ret the value handed back
Return(op, U, N, val, r, new, ret) ==
    /\ r.counter <= MaxCounter
    /\ counter_' = r.counter
    /\ container_' = IF r.node # 0
                     THEN AtNode(types, container_, r.node, new)
                     ELSE container_
    /\ Total(container_') <= MaxTotal
    /\ last' = [op |-> op, U |-> U, N |-> N, val |-> val, c0 |-> counter_,
                outcome |-> r.outcome, node |-> r.node,
                ret |-> IF r.outcome = "ok" THEN ret ELSE "void",
                delta |-> Changed]
    /\ UNCHANGED <<kind, types, object, walker, aggregate, heap>>

container ==
    \E U \in Asked(types), N \in 0..MaxN :
        LET r == Walk(kind, types, counter_, U, N)
        IN  Return("container", U, N, 0, r, Target(r), Target(r))

size ==
    \E U \in Asked(types), N \in 0..MaxN :
        LET r == Walk(kind, types, counter_, U, N)
        IN  Return("size", U, N, 0, r, Target(r), vec_size(Target(r)))

\* back() and pop_back() of an empty std::vector/std::deque have no defined
\* behaviour; callers only make them on a non-empty container
back ==
    \E U \in Asked(types), N \in 0..MaxN :
        LET r == Walk(kind, types, counter_, U, N)
        IN  /\ r.outcome = "ok" => Len(Target(r)) > 0
            /\ Return("back", U, N, 0, r, Target(r),
                      IF r.outcome = "ok" THEN vec_back(Target(r)) ELSE "void")

\* at<U, N>(n): the node resets the counter, then calls at(n) on its
\* container; what that call throws leaves the method as it is
at ==
    \E U \in Asked(types), N \in 0..MaxN, n \in 0..MaxTotal :
        LET r == Walk(kind, types, counter_, U, N)
            e == vec_at(Target(r), n)
        IN  IF r.outcome = "ok" /\ e.outcome # "ok"
            THEN Return("at", U, N, n, [r EXCEPT !.outcome = e.outcome],
                        Target(r), "void")
            ELSE Return("at", U, N, n, r, Target(r), e.ret)

push_back ==
    \E U \in Asked(types), N \in 0..MaxN, v \in Values :
        LET r == Walk(kind, types, counter_, U, N)
        IN  Return("push_back", U, N, v, r, vec_push_back(Target(r), v), "void")

pop_back ==
    \E U \in Asked(types), N \in 0..MaxN :
        LET r == Walk(kind, types, counter_, U, N)
        IN  /\ r.outcome = "ok" => Len(Target(r)) > 0
            /\ Return("pop_back", U, N, 0, r,
                      IF r.outcome = "ok" THEN vec_pop_back(Target(r)) ELSE <<>>,
                      "void")

clear ==
    \E U \in Asked(types), N \in 0..MaxN :
        LET r == Walk(kind, types, counter_, U, N)
        IN  Return("clear", U, N, 0, r, vec_clear(Target(r)), "void")

set ==
    \E U \in Asked(types), N \in 0..MaxN, x \in Contents :
        LET r == Walk(kind, types, counter_, U, N)
        IN  Return("set", U, N, 0, r, vec_set(Target(r), x), vec_set(Target(r), x))

assign ==
    \E U \in Asked(types), N \in 0..MaxN, x \in Contents :
        LET r == WalkAssign(kind, types, counter_, U)
        IN  Return("assign", U, N, 0, r, vec_assign(Target(r), x), "void")

\* the nodes whose container the caller's position iterator may point into:
\* the iterator was handed out by begin<U, M>() on this aggregate, with M = N
\* where begin<U, N>() exists; 0 stands for an iterator of no container
Owners(U, N) ==
    LET b == Walk(kind, types, 0, U, N)
    IN  IF b.outcome = "ok" THEN {b.node}
        ELSE {Walk(kind, types, 0, U, M).node : M \in 0..MaxN}

\* what container_type<U>::insert(position, first, last) can leave in a
\* container s that position does not point into (no defined behaviour):
\* s itself, or s with the range put in at any place
InsertElsewhere(s, x) == {s} \cup {vec_insert(s, q, x) : q \in 0..Len(s)}

\* insert<U, N>(position, first, last) with position = begin() + off of the
\* container of node owner
insert ==
    \E U \in Asked(types), N \in 0..MaxN, x \in Contents :
      \E owner \in Owners(U, N) :
        \E off \in 0..(IF owner = 0 THEN 0 ELSE Len(container_[owner])) :
          LET r == WalkInsert(kind, types, counter_, U, N)
          IN  IF r.outcome = "ok" /\ r.node # owner
              THEN \E new \in InsertElsewhere(Target(r), x) :
                     Return("insert", U, N, off,
                            [r EXCEPT !.outcome = "undefined"], new, "void")
              ELSE Return("insert", U, N, off, r,
                          vec_insert(Target(r), off, x), "void")

type ==
    \E N \in 0..MaxN :
        LET r == WalkType(kind, types, counter_, N)
        IN  Return("type", "none", N, 0, r, Target(r),
                   IF r.outcome = "ok" THEN types[r.node] ELSE "void")

\* contains<U>() and multiplicity<U>() read the declared types only
contains ==
    \E U \in Asked(types) :
        /\ UNCHANGED <<kind, types, container_, counter_, object, walker, aggregate, heap>>
        /\ last' = [op |-> "contains", U |-> U, N |-> 0, val |-> 0,
                    c0 |-> counter_, outcome |-> "ok", node |-> 0,
                    ret |-> Contains(kind, types, U), delta |-> Changed]

\* variant: the sum is accumulated in the shared counter cell
multiplicity_in_counter ==
    \E U \in Asked(types) :
        /\ UNCHANGED <<kind, types, container_, object, walker, aggregate, heap>>
        /\ counter_' = counter_ + Multiplicity(kind, types, U)
        /\ last' = [op |-> "multiplicity", U |-> U, N |-> 0, val |-> 0,
                    c0 |-> counter_, outcome |-> "ok", node |-> 0,
                    ret |-> Multiplicity(kind, types, U), delta |-> Changed]

multiplicity ==
    \E U \in Asked(types) :
        /\ UNCHANGED <<kind, types, container_, counter_, object, walker, aggregate, heap>>
        /\ last' = [op |-> "multiplicity", U |-> U, N |-> 0, val |-> 0,
                    c0 |-> counter_, outcome |-> "ok", node |-> 0,
                    ret |-> Multiplicity(kind, types, U), delta |-> Changed]

\* heterogeneous::for_each<U>(hv, fn) and heterogeneous::for_each(hv, fn):
\* heterogeneous::vector is a chain of the heterodeque layout; fn notes the
\* node it is called on
for_each ==
    \E U \in Asked(types) :
        /\ kind = "heterodeque"
        /\ UNCHANGED <<kind, types, container_, counter_, object, walker, aggregate, heap>>
        /\ last' = [op |-> "for_each", U |-> U, N |-> 0, val |-> 0,
                    c0 |-> counter_, outcome |-> "ok", node |-> 0,
                    ret |-> vector_for_each_U(types, 1, U, <<>>),
                    delta |-> Changed]

for_each_all ==
    /\ kind = "heterodeque"
    /\ UNCHANGED <<kind, types, container_, counter_, object, walker, aggregate, heap>>
    /\ last' = [op |-> "for_each_all", U |-> "none", N |-> 0, val |-> 0,
                c0 |-> counter_, outcome |-> "ok", node |-> 0,
                ret |-> vector_for_each(types, 1, <<>>), delta |-> Changed]

Next ==
    \/ container
    \/ size
    \/ back
    \/ at
    \/ push_back
    \/ pop_back
    \/ clear
    \/ set
    \/ assign
    \/ insert
    \/ type
    \/ contains
    \/ multiplicity

Spec == Init /\ [][Next]_vars

\* ------------------------------------- the walk, one node at a time
\* walker[t]: where thread t is inside container<U, N>(): the node whose
\* member function runs (pc "at"), the same after it has read *counter_ for
\* the comparison with N (pc "read", the value in seen), and the two ways
\* out; c0 is *counter_ on entry, alone says that no other thread was inside
\* a call between this thread's entry and now
Walking == {"at", "read"}

Finished == {"returned", "thrown"}

\* the node that has no next(): heterovector<> behind the declared types,
\* the node of the last declared type in the heterodeque layout
LastNode == IF kind = "heterovector" THEN Len(types) + 1 ELSE Len(types)

\* typeid(U) == typeid(value_type) at the node t is at
TypeMatches(t) ==
    /\ walker[t].node <= Len(types)
    /\ types[walker[t].node] = walker[t].U

\* t moves on: every other thread inside a call has had company
Moved(t, w) ==
    [o \in Threads |->
        IF o = t THEN w
        ELSE IF walker[o].pc = "idle" THEN walker[o]
        ELSE [walker[o] EXCEPT !.alone = FALSE]]

WalkFrame == UNCHANGED <<kind, types, container_, last, object, aggregate, heap>>

\* hv.container<U, N>(): the head's member function is entered
container_call(t) ==
    \E U \in Asked(types), N \in 0..MaxN :
        /\ walker[t].pc = "idle"
        /\ walker' = Moved(t, [pc |-> "at", U |-> U, N |-> N, node |-> 1,
                               c0 |-> counter_, seen |-> 0,
                               alone |-> \A o \in Threads \ {t} :
                                             walker[o].pc = "idle"])
        /\ UNCHANGED counter_
        /\ WalkFrame

\* variant: a node of another type counts too
container_next_counting(t) ==
    /\ walker[t].pc = "at"
    /\ walker[t].node # LastNode
    /\ ~TypeMatches(t)
    /\ counter_ < MaxCounter
    /\ counter_' = counter_ + 1
    /\ walker' = Moved(t, [walker[t] EXCEPT !.node = @ + 1])
    /\ WalkFrame

\* the type differs: return next().template container<U, N>()
container_next(t) ==
    /\ walker[t].pc = "at"
    /\ walker[t].node # LastNode
    /\ ~TypeMatches(t)
    /\ walker' = Moved(t, [walker[t] EXCEPT !.node = @ + 1])
    /\ UNCHANGED counter_
    /\ WalkFrame

\* the type is U: *counter_ is read for *counter_ == N
container_load(t) ==
    /\ walker[t].pc = "at"
    /\ TypeMatches(t)
    /\ walker' = Moved(t, [walker[t] EXCEPT !.pc = "read", !.seen = counter_])
    /\ UNCHANGED counter_
    /\ WalkFrame

\* variant: the matching node returns without writing 0 to *counter_
container_match_no_reset(t) ==
    /\ walker[t].pc = "read"
    /\ walker[t].seen = walker[t].N
    /\ walker' = Moved(t, [walker[t] EXCEPT !.pc = "returned"])
    /\ UNCHANGED counter_
    /\ WalkFrame

\* *counter_ == N was true: *counter_ = 0; return container_
container_match(t) ==
    /\ walker[t].pc = "read"
    /\ walker[t].seen = walker[t].N
    /\ counter_' = 0
    /\ walker' = Moved(t, [walker[t] EXCEPT !.pc = "returned"])
    /\ WalkFrame

\* *counter_ == N was false: ++(*counter_), then next().  The increment is
\* not atomic: it stores one more than the value read for the comparison or
\* one more than the value in the cell now
container_increment(t) ==
    /\ walker[t].pc = "read"
    /\ walker[t].seen # walker[t].N
    /\ walker[t].node # LastNode
    /\ \E c \in {walker[t].seen + 1, counter_ + 1} :
          /\ c <= MaxCounter
          /\ counter_' = c
    /\ walker' = Moved(t, [walker[t] EXCEPT !.pc = "at", !.node = @ + 1])
    /\ WalkFrame

\* the node without next(): heterovector<> throws and leaves *counter_, the
\* last node of the heterodeque layout writes 0 to it and throws
container_throw(t) ==
    /\ walker[t].node = LastNode
    /\ \/ walker[t].pc = "at" /\ ~TypeMatches(t)
       \/ walker[t].pc = "read" /\ walker[t].seen # walker[t].N
    /\ counter_' = IF kind = "heterovector" THEN counter_ ELSE 0
    /\ walker' = Moved(t, [walker[t] EXCEPT !.pc = "thrown", !.node = 0])
    /\ WalkFrame

\* the caller has the pointer or the exception
container_leave(t) ==
    /\ walker[t].pc \in Finished
    /\ walker' = Moved(t, Idle)
    /\ UNCHANGED counter_
    /\ WalkFrame

\* one thread calls container<U, N>() again and again
WalkNext ==
    \/ container_call(1)
    \/ container_next(1)
    \/ container_load(1)
    \/ container_match(1)
    \/ container_increment(1)
    \/ container_throw(1)
    \/ container_leave(1)

WalkSpec == Init /\ [][WalkNext]_vars

\* two threads call container<U, N>() on the same aggregate, no lock
RaceNext ==
    \E t \in Threads :
        \/ container_call(t)
        \/ container_next(t)
        \/ container_load(t)
        \/ container_match(t)
        \/ container_increment(t)
        \/ container_throw(t)
        \/ container_leave(t)

RaceSpec == Init /\ [][RaceNext]_vars

\* ------------------------------------------- the aggregates of the examples
\* a caller that only reads: the declared-type queries and the read accessors
\* on the short TypeLists and on the seven-type aggregate of the examples
QueryInit ==
    /\ kind \in Kinds
    /\ types \in TypeLists \cup {ExampleTypeList}
    /\ container_ = [i \in 1..Len(types) |-> <<>>]
    /\ counter_ = 0
    /\ last = NoCall
    /\ object = <<>>
    /\ walker = NoWalker
    /\ aggregate = NoAggregate
    /\ heap = NoHeap

QueryNext ==
    \/ contains
    \/ multiplicity
    \/ container
    \/ size
    \/ type
    \/ for_each
    \/ for_each_all

QuerySpec == QueryInit /\ [][QueryNext]_vars

\* ======================================================= adaptor.hpp
\* a type-erased element: the type of the payload it holds and the payload
Erased(t, v) == [type |-> t, value |-> v]

\* the container of example_adaptor.cpp
ExampleObject ==
    << Erased("float", "3.1415f"), Erased("double", "3.141516"),
       Erased("string", "a"), Erased("int", "1986"), Erased("string", "b"),
       Erased("string", "c"), Erased("int", "2004"), Erased("double", "69.69"),
       Erased("string", "d") >>

\* two distinguishable payloads of each of two types
SmallElements == {Erased(t, v) : t \in {"int", "string"}, v \in {"1", "2"}}

SmallObjects == SeqsUpTo(SmallElements, MaxSize)

\* the native types a caller asks for: the held ones and one more
AskedNative(obj) == {obj[k].type : k \in DOMAIN obj} \cup {"float"}

\* index_ is 0-based: *(container_->begin() + index_) is obj[index_ + 1].
\* An index_ above the size is an iterator that has left the container.
\* the loop of the type_iterator constructor and of operator++: stop at the
\* first element of type T at or after idx, or at the end
RECURSIVE type_iterator_scan(_, _, _)
type_iterator_scan(obj, idx, T) ==
    IF idx >= Len(obj) THEN idx
    ELSE IF obj[idx + 1].type = T THEN idx
    ELSE type_iterator_scan(obj, idx + 1, T)

\* adaptor::begin<T>() and adaptor::end<T>()
adaptor_begin(obj, T) == type_iterator_scan(obj, 0, T)

adaptor_end(obj, T) == type_iterator_scan(obj, Len(obj), T)

\* variant: ++ steps to the next element whatever its type
type_iterator_increment_any(obj, idx, T) == idx + 1

\* type_iterator::operator++
type_iterator_increment(obj, idx, T) == type_iterator_scan(obj, idx + 1, T)

\* type_iterator::operator*: the payload of the element at index_
type_iterator_deref(obj, idx) == obj[idx + 1].value

\* the loop of type_iterator::operator+(rhs), n matches seen so far
RECURSIVE type_iterator_plus_loop(_, _, _, _, _)
type_iterator_plus_loop(obj, idx, T, n, rhs) ==
    IF idx >= Len(obj) THEN idx
    ELSE IF obj[idx + 1].type = T
         THEN IF n + 1 = rhs THEN idx
              ELSE type_iterator_plus_loop(obj, idx + 1, T, n + 1, rhs)
    ELSE type_iterator_plus_loop(obj, idx + 1, T, n, rhs)

\* type_iterator::operator+(rhs)
type_iterator_plus(obj, idx, T, rhs) ==
    IF rhs = 0 THEN idx
    ELSE type_iterator_plus_loop(obj, idx + 1, T, 0, rhs)

\* variant: the reverse scan tests the elements from the front
RECURSIVE type_reverse_iterator_scan_front(_, _, _)
type_reverse_iterator_scan_front(obj, idx, T) ==
    IF idx >= Len(obj) THEN idx
    ELSE IF obj[idx + 1].type = T THEN idx
    ELSE type_reverse_iterator_scan_front(obj, idx + 1, T)

\* the loop of the type_reverse_iterator constructor:
\* *(container_->rbegin() + index_) is obj[Len(obj) - index_]
RECURSIVE type_reverse_iterator_scan(_, _, _)
type_reverse_iterator_scan(obj, idx, T) ==
    IF idx >= Len(obj) THEN idx
    ELSE IF obj[Len(obj) - idx].type = T THEN idx
    ELSE type_reverse_iterator_scan(obj, idx + 1, T)

adaptor_rbegin(obj, T) == type_reverse_iterator_scan(obj, 0, T)

adaptor_rend(obj, T) == type_reverse_iterator_scan(obj, Len(obj), T)

\* type_reverse_iterator::operator*
type_reverse_iterator_deref(obj, idx) == obj[Len(obj) - idx].value

\* the loop of adaptor::size<T>(): ptr runs from begin<T>() to end<T>()
RECURSIVE adaptor_size_loop(_, _, _, _)
adaptor_size_loop(obj, ptr, T, n) ==
    IF ptr = adaptor_end(obj, T) THEN n
    ELSE adaptor_size_loop(obj, type_iterator_increment(obj, ptr, T), T, n + 1)

adaptor_size_of(obj, T) == adaptor_size_loop(obj, adaptor_begin(obj, T), T, 0)

\* the loop for (itr = begin<T>(); itr != end<T>(); ++itr) of the example:
\* the slots visited (1-based) and the payloads *itr gave, in order
RECURSIVE for_each_loop(_, _, _, _)
for_each_loop(obj, itr, T, out) ==
    IF itr = adaptor_end(obj, T) THEN out
    ELSE for_each_loop(obj, type_iterator_increment(obj, itr, T), T,
                       Append(out, [slot |-> itr + 1,
                                    value |-> type_iterator_deref(obj, itr)]))

\* result of an element access: how it ended, the slot of the sequence it
\* refers to (1-based, 0: none) and the payload it hands back
Got(slot, v) == [outcome |-> "ok", slot |-> slot, ret |-> v]

Failed(what) == [outcome |-> what, slot |-> 0, ret |-> "void"]

\* adaptor::first<T>()
adaptor_first_of(obj, T) ==
    LET itr == adaptor_begin(obj, T)
    IN  IF itr = adaptor_end(obj, T) THEN Failed("out_of_range")
        ELSE Got(itr + 1, type_iterator_deref(obj, itr))

\* adaptor::last<T>()
adaptor_last_of(obj, T) ==
    LET ritr == adaptor_rbegin(obj, T)
    IN  IF ritr = adaptor_rend(obj, T) THEN Failed("out_of_range")
        ELSE Got(Len(obj) - ritr, type_reverse_iterator_deref(obj, ritr))

\* the loop of adaptor::at<T>(i): itr is the 1-based place of the element
\* looked at, n the index of the last match seen
RECURSIVE adaptor_at_loop(_, _, _, _, _)
adaptor_at_loop(obj, itr, T, n, i) ==
    IF itr > Len(obj) THEN Failed("out_of_range")
    ELSE IF obj[itr].type = T
         THEN IF n + 1 = i THEN Got(itr, obj[itr])
              ELSE adaptor_at_loop(obj, itr + 1, T, n + 1, i)
    ELSE adaptor_at_loop(obj, itr + 1, T, n, i)

\* A size_t argument is written hi * 2^32 + lo with lo < 2^31: size_t has 64
\* bits where int has 32.  static_cast<int>(i) keeps the low 32 bits.
static_cast_int(hi, lo) == lo

\* the values of hi a caller passes
Highs == {0, 1}

\* adaptor::at<T>(i): a reference to the erased element; n is an int and i
\* is compared as static_cast<int>(i)
adaptor_at_of(obj, T, hi, i) ==
    adaptor_at_loop(obj, 1, T, -1, static_cast_int(hi, i))

\* adaptor::get<T>(i).  begin<T>() + i leaves the container when no element
\* of type T exists and i > 0: ++index_ steps over end(); nothing is defined
\* about the comparison and the dereference that follow
adaptor_get_of(obj, T, i) ==
    LET itr == type_iterator_plus(obj, adaptor_begin(obj, T), T, i)
    IN  IF itr = adaptor_end(obj, T) THEN Failed("out_of_range")
        ELSE IF itr > Len(obj) THEN Failed("undefined")
        ELSE Got(itr + 1, type_iterator_deref(obj, itr))

\* what a build can do where get<T>(i) has no defined behaviour
UndefinedOutcomes == {"segfault", "garbage"}

\* variant: the assignment replaces the payload and keeps the held type
any_assign_value_only(obj, slot, T, v) ==
    [obj EXCEPT ![slot] = Erased(obj[slot].type, v)]

\* erased_type::operator=(const native_type&) on the element at slot
any_assign(obj, slot, T, v) == [obj EXCEPT ![slot] = Erased(T, v)]

\* variant: the test of swap lets i = size<A>() and j = size<B>() through
swap_in_range_inclusive(obj, A, B, i, j) ==
    ~(i > adaptor_size_of(obj, A) \/ j > adaptor_size_of(obj, B))

\* the test at the head of adaptor::swap<A, B>(i, j)
swap_in_range(obj, A, B, i, j) ==
    ~(i >= adaptor_size_of(obj, A) \/ j >= adaptor_size_of(obj, B))

\* variant: both assignments of swap go through Aref
swap_assignments_one_sided(obj, Aref, Bref, A, B, tempA, tempB) ==
    any_assign(any_assign(obj, Aref, B, tempB), Aref, B, tempB)

\* Aref = tempB; Bref = tempA;
swap_assignments(obj, Aref, Bref, A, B, tempA, tempB) ==
    any_assign(any_assign(obj, Aref, B, tempB), Bref, A, tempA)

\* adaptor::swap<A, B>(i, j): how it ends (r) and the sequence it leaves (new)
swap_body(obj, A, B, i, j) ==
    IF ~swap_in_range(obj, A, B, i, j)
    THEN [r |-> Got(0, FALSE), new |-> obj]
    ELSE LET Aref == adaptor_at_of(obj, A, 0, i)
             Bref == adaptor_at_of(obj, B, 0, j)
             tempA == adaptor_get_of(obj, A, i)
             tempB == adaptor_get_of(obj, B, j)
         IN  IF Aref.outcome # "ok" THEN [r |-> Failed(Aref.outcome), new |-> obj]
             ELSE IF Bref.outcome # "ok"
                  THEN [r |-> Failed(Bref.outcome), new |-> obj]
             ELSE IF tempA.outcome # "ok"
                  THEN [r |-> Failed(tempA.outcome), new |-> obj]
             ELSE IF tempB.outcome # "ok"
                  THEN [r |-> Failed(tempB.outcome), new |-> obj]
             ELSE [r |-> Got(0, TRUE),
                   new |-> swap_assignments(obj, Aref.slot, Bref.slot, A, B,
                                            tempA.ret, tempB.ret)]

\* variant: the one-type overload passes i twice
swap_same_body_ii(obj, A, i, j) == swap_body(obj, A, A, i, i)

\* adaptor::swap<A>(i, j): swap<A, A>(i, j)
swap_same_body(obj, A, i, j) == swap_body(obj, A, A, i, j)

\* ------------------------------------------------- the adaptor's methods
\* leaving a method of the adaptor: last keeps the call, how it ended and
\* the sequence as it was on entry (before)
AdaptorReturn(op, A, B, i, j, r, new) ==
    /\ object' = new
    /\ last' = [op |-> op, A |-> A, B |-> B, i |-> i, j |-> j,
                outcome |-> r.outcome, slot |-> r.slot, ret |-> r.ret,
                before |-> object]
    /\ UNCHANGED <<kind, types, container_, counter_, walker, aggregate, heap>>

adaptor_for_each ==
    \E T \in AskedNative(object) :
        AdaptorReturn("for_each", T, T, 0, 0,
                      Got(0, for_each_loop(object, adaptor_begin(object, T),
                                           T, <<>>)),
                      object)

adaptor_size ==
    \E T \in AskedNative(object) :
        AdaptorReturn("size", T, T, 0, 0, Got(0, adaptor_size_of(object, T)),
                      object)

adaptor_first ==
    \E T \in AskedNative(object) :
        AdaptorReturn("first", T, T, 0, 0, adaptor_first_of(object, T), object)

adaptor_last ==
    \E T \in AskedNative(object) :
        AdaptorReturn("last", T, T, 0, 0, adaptor_last_of(object, T), object)

\* at<T>(hi * 2^32 + i); last.hi keeps hi
adaptor_at ==
    \E T \in AskedNative(object), hi \in Highs, i \in 0..MaxIndex :
        LET r == adaptor_at_of(object, T, hi, i)
        IN  /\ object' = object
            /\ last' = [op |-> "at", A |-> T, B |-> T, i |-> i, j |-> 0,
                        hi |-> hi, outcome |-> r.outcome, slot |-> r.slot,
                        ret |-> r.ret, before |-> object]
            /\ UNCHANGED <<kind, types, container_, counter_, walker, aggregate, heap>>

adaptor_get ==
    \E T \in AskedNative(object), i \in 0..MaxIndex :
        LET r == adaptor_get_of(object, T, i)
        IN  IF r.outcome = "undefined"
            THEN \E u \in UndefinedOutcomes :
                     AdaptorReturn("get", T, T, i, 0, Failed(u), object)
            ELSE AdaptorReturn("get", T, T, i, 0, r, object)

adaptor_swap ==
    \E A \in AskedNative(object), B \in AskedNative(object),
       i \in 0..MaxIndex, j \in 0..MaxIndex :
        LET w == swap_body(object, A, B, i, j)
        IN  AdaptorReturn("swap", A, B, i, j, w.r, w.new)

adaptor_swap_same ==
    \E A \in AskedNative(object), i \in 0..MaxIndex, j \in 0..MaxIndex :
        LET w == swap_same_body(object, A, i, j)
        IN  AdaptorReturn("swap_same", A, A, i, j, w.r, w.new)

\* an adaptor on any short sequence
AdaptorInit ==
    /\ kind = "heterovector"
    /\ types = <<"int">>
    /\ container_ = [n \in 1..Len(types) |-> <<>>]
    /\ counter_ = 0
    /\ last = NoCall
    /\ object \in SmallObjects
    /\ walker = NoWalker
    /\ aggregate = NoAggregate
    /\ heap = NoHeap

AdaptorNext ==
    \/ adaptor_for_each
    \/ adaptor_size
    \/ adaptor_first
    \/ adaptor_last
    \/ adaptor_at
    \/ adaptor_get
    \/ adaptor_swap
    \/ adaptor_swap_same

AdaptorSpec == AdaptorInit /\ [][AdaptorNext]_vars

\* the adaptor of example_adaptor.cpp, whose swaps are all of one type, on
\* its nine-element container and on any short sequence
ExampleInit ==
    /\ kind = "heterovector"
    /\ types = <<"int">>
    /\ container_ = [n \in 1..Len(types) |-> <<>>]
    /\ counter_ = 0
    /\ last = NoCall
    /\ object \in SmallObjects \cup {ExampleObject}
    /\ walker = NoWalker
    /\ aggregate = NoAggregate
    /\ heap = NoHeap

ExampleNext ==
    \/ adaptor_for_each
    \/ adaptor_size
    \/ adaptor_first
    \/ adaptor_last
    \/ adaptor_at
    \/ adaptor_get
    \/ adaptor_swap_same

ExampleSpec == ExampleInit /\ [][ExampleNext]_vars

\* ------------------------------------------ objects and the free store
\* heap: the cells made by new, by address (1, 2, ...; an address is not
\* handed out twice): what the cell is, what it holds, how many times delete
\* was applied to it, and whether it was read after the first delete.
\* aggregate[x]: the object x: the container_ pointer of each node and the
\* counter_ pointer all its nodes hold.
\* heterogeneous::vector has the dispatch of the heterodeque layout and
\* destructors of its own
LifeKinds == Kinds \cup {"vector"}

Cell(what, value) ==
    [what |-> what, value |-> value, released |-> 0, stale |-> FALSE]

\* new container_type<T>(value), new size_t
Allocate(h, what, value) == Append(h, Cell(what, value))

\* what released storage holds is indeterminate
Indeterminate(what) == IF what = "counter" THEN 0 ELSE <<>>

\* delete p (in heterovector and heterodeque through a void*: the storage
\* of the container object goes back to the free store)
Release(h, p) ==
    [h EXCEPT ![p].released = @ + 1, ![p].value = Indeterminate(h[p].what)]

\* *p is read: a read of a cell that was released is marked in the cell
Read(h, p) == IF h[p].released > 0 THEN [h EXCEPT ![p].stale = TRUE] ELSE h

\* what the caller sees of a call that ran on the heap g from the heap h
Outcomes(h, g) ==
    IF \E p \in DOMAIN g :
          \/ g[p].released > 1 /\ (p \notin DOMAIN h \/ h[p].released < g[p].released)
          \/ g[p].stale /\ (p \notin DOMAIN h \/ ~h[p].stale)
    THEN UndefinedOutcomes ELSE {"ok"}

\* nothing is known of a program once its behaviour is undefined: no call
\* is followed beyond that point
Running == last.outcome \notin UndefinedOutcomes

\* the contents of the containers of x, node by node
ValueOf(ag, h, x) ==
    [i \in DOMAIN ag[x].container_ |-> h[ag[x].container_[i]].value]

\* the cells x points to
CellsOf(ag, x) ==
    {ag[x].container_[i] : i \in DOMAIN ag[x].container_} \cup {ag[x].counter_}

\* the constructors down the chain: one new container per node, in
\* declaration order
RECURSIVE construct_nodes(_, _, _)
construct_nodes(h, tl, i) ==
    IF i > Len(tl) THEN h
    ELSE construct_nodes(Allocate(h, "container", <<>>), tl, i + 1)

\* setEQUALTO(x) at node i and below: delete container_, then container_ =
\* new container_type<T>(*x.container_), then the next node
RECURSIVE setEQUALTO(_, _, _, _)
setEQUALTO(h, xc, yc, i) ==
    IF i > Len(xc) THEN [heap |-> h, container_ |-> xc]
    ELSE LET freed == Release(h, xc[i])
             read == Read(freed, yc[i])
             copy == Allocate(read, "container", read[yc[i]].value)
         IN  setEQUALTO(copy, [xc EXCEPT ![i] = Len(copy)], yc, i + 1)

\* what the copies made from released cells may hold: anything
Scribbled(h, cells) ==
    {h} \cup {[p \in DOMAIN h |-> IF p \in cells THEN [h[p] EXCEPT !.value = g]
                                  ELSE h[p]] : g \in Contents}

\* the destructors down the chain: heterogeneous::vector deletes the
\* container of each node, heterovector and heterodeque delete none
RECURSIVE destroy_nodes(_, _, _, _)
destroy_nodes(k, h, xc, i) ==
    IF i > Len(xc) THEN h
    ELSE destroy_nodes(k, IF k = "vector" THEN Release(h, xc[i]) ELSE h,
                       xc, i + 1)

\* the call as the caller sees it
LifeCall(op, x, y, o) ==
    [NoCall EXCEPT !.op = op, !.U = x, !.val = y, !.outcome = o]

LifeFrame == UNCHANGED <<kind, types, container_, counter_, object, walker>>

\* T x;  the default constructor
construct(x) ==
    /\ Running
    /\ ~aggregate[x].live
    /\ ~aggregate[x].gone
    /\ Len(heap) + Len(types) + 1 <= MaxAddr
    /\ LET nodes == construct_nodes(heap, types, 1)
           all == Allocate(nodes, "counter", 0)
       IN  /\ heap' = all
           /\ aggregate' = [aggregate EXCEPT ![x] =
                  [live |-> TRUE,
                   container_ |-> [i \in 1..Len(types) |-> Len(heap) + i],
                   counter_ |-> Len(all), gone |-> FALSE]]
    /\ last' = LifeCall("construct", x, x, "ok")
    /\ LifeFrame

\* T x(y);  no copy constructor is declared: the members are copied
copy_construct(x, y) ==
    /\ Running
    /\ ~aggregate[x].live
    /\ ~aggregate[x].gone
    /\ aggregate[y].live
    /\ aggregate' = [aggregate EXCEPT ![x] = aggregate[y]]
    /\ last' = LifeCall("copy_construct", x, y, "ok")
    /\ UNCHANGED heap
    /\ LifeFrame

\* x = y;  operator= is setEQUALTO from the head
operator_assign(x, y) ==
    /\ Running
    /\ aggregate[x].live
    /\ aggregate[y].live
    /\ LET r == setEQUALTO(heap, aggregate[x].container_,
                           aggregate[y].container_, 1)
           made == (Len(heap) + 1)..Len(r.heap)
       IN  /\ Len(r.heap) <= MaxAddr
           /\ \E o \in Outcomes(heap, r.heap) :
                 /\ last' = LifeCall("operator=", x, y, o)
                 /\ IF o = "segfault"
                    THEN UNCHANGED <<heap, aggregate>>
                    ELSE /\ heap' \in IF o = "ok" THEN {r.heap}
                                      ELSE Scribbled(r.heap, made)
                         /\ aggregate' = [aggregate EXCEPT
                                              ![x].container_ = r.container_]
    /\ LifeFrame

\* swap(x) at node i and below: container_ and x.container_ change places,
\* then the next node; no node touches counter_
RECURSIVE swap_nodes(_, _, _, _)
swap_nodes(ag, x, y, i) ==
    IF i > Len(ag[x].container_) THEN ag
    ELSE LET temp == ag[x].container_[i]
             one == [ag EXCEPT ![x].container_[i] = ag[y].container_[i]]
             two == [one EXCEPT ![y].container_[i] = temp]
         IN  swap_nodes(two, x, y, i + 1)

\* x.swap(y)
swap(x, y) ==
    /\ Running
    /\ aggregate[x].live
    /\ aggregate[y].live
    /\ aggregate' = swap_nodes(aggregate, x, y, 1)
    /\ last' = LifeCall("swap", x, y, "ok")
    /\ UNCHANGED heap
    /\ LifeFrame

\* x goes out of scope: the destructors of the nodes, then that of the node
\* that owns the counter
destructor(x) ==
    /\ Running
    /\ aggregate[x].live
    /\ LET nodes == destroy_nodes(kind, heap, aggregate[x].container_, 1)
           all == Release(nodes, aggregate[x].counter_)
       IN  \E o \in Outcomes(heap, all) :
              /\ last' = LifeCall("destructor", x, x, o)
              /\ heap' = IF o = "segfault" THEN heap ELSE all
              /\ aggregate' = IF o = "segfault" THEN aggregate
                              ELSE [aggregate EXCEPT ![x].live = FALSE,
                                                     ![x].gone = TRUE]
    /\ LifeFrame

\* x.container<U, N>()->push_back(1): the walk on the counter cell of x, then
\* the call on the container the node points to
container_push_back(x) ==
    \E U \in Asked(types), N \in 0..MaxN :
        /\ Running
        /\ aggregate[x].live
        /\ LET ctr == aggregate[x].counter_
               h1 == Read(heap, ctr)
               r == Walk(kind, types, heap[ctr].value, U, N)
               h2 == [h1 EXCEPT ![ctr].value = r.counter]
               p == aggregate[x].container_[r.node]
               h3 == IF r.outcome = "ok" THEN Read(h2, p) ELSE h2
               bad == Outcomes(heap, h3)
           IN  /\ r.counter <= MaxCounter
               /\ \E o \in IF bad = {"ok"} THEN {r.outcome} ELSE bad :
                     /\ last' = [LifeCall("container_push_back", U, x, o)
                                    EXCEPT !.N = N, !.node = r.node,
                                           !.c0 = heap[ctr].value]
                     /\ IF o = "segfault" THEN UNCHANGED heap
                        ELSE IF o = "ok"
                        THEN /\ Len(h3[p].value) < MaxFill
                             /\ heap' = [h3 EXCEPT ![p].value =
                                            vec_push_back(@, 1)]
                        ELSE heap' = h3
        /\ UNCHANGED aggregate
        /\ LifeFrame

LifeInit ==
    /\ kind \in LifeKinds
    /\ types \in TypeLists
    /\ container_ = [i \in 1..Len(types) |-> <<>>]
    /\ counter_ = 0
    /\ last = NoCall
    /\ object = <<>>
    /\ walker = NoWalker
    /\ aggregate = NoAggregate
    /\ heap = NoHeap

LifeNext ==
    \E x \in Names, y \in Names :
        \/ construct(x)
        \/ copy_construct(x, y)
        \/ operator_assign(x, y)
        \/ swap(x, y)
        \/ destructor(x)
        \/ container_push_back(x)

LifeSpec == LifeInit /\ [][LifeNext]_vars

\* ------------------------------------------------------------ properties
\* declaration positions of type U, their number, and the position of
\* occurrence N (0-based) among them
Positions(tl, U) == {i \in 1..Len(tl) : tl[i] = U}

Count(tl, U) == Cardinality(Positions(tl, U))

NthPosition(tl, U, N) ==
    CHOOSE i \in Positions(tl, U) :
        Cardinality({j \in Positions(tl, U) : j < i}) = N

\* the public methods that take a type and an occurrence
OccOps == {"container", "size", "back", "push_back", "pop_back", "clear",
           "set", "assign"}

Mutators == {"push_back", "pop_back", "clear", "set", "assign"}

\* C1: a type/occurrence-qualified call with N below the multiplicity of U,
\* made while the counter is 0, succeeds, acts on the node at the declaration
\* position of occurrence N of U and on no other node.
C1_ResolvesToNthPosition ==
    (last.op \in OccOps /\ last.c0 = 0 /\ last.N < Count(types, last.U))
        => /\ last.outcome = "ok"
           /\ last.node = NthPosition(types, last.U, last.N)
           /\ last.delta \subseteq {last.node}

\* C2: multiplicity<U>() is the number of nodes that declare U: 0 for an
\* undeclared type, and 3/2/2/0 for int/double/string/float on the
\* seven-type aggregate of the examples.
C2_MultiplicityCounts ==
    last.op = "multiplicity"
        => /\ last.ret = Count(types, last.U)
           /\ types = ExampleTypeList
                => last.ret = (CASE last.U = "int" -> 3
                                 [] last.U = "double" -> 2
                                 [] last.U = "string" -> 2
                                 [] OTHER -> 0)

C2_Witness ==
    /\ last.op = "multiplicity"
    /\ types = ExampleTypeList
    /\ last.U = "int"
    /\ last.ret = 3

\* C3: contains<U>() is true exactly when multiplicity<U>() is positive, for
\* every type U and every TypeList.
C3_ContainsIffMultiplicity ==
    /\ \A U \in TypeNames :
          Contains(kind, types, U) <=> (Multiplicity(kind, types, U) > 0)
    /\ last.op = "contains"
          => (last.ret <=> (Multiplicity(kind, types, last.U) > 0))
    /\ last.op = "multiplicity"
          => ((last.ret > 0) <=> Contains(kind, types, last.U))

C3_Witness ==
    /\ last.op = "contains"
    /\ last.ret = TRUE
    /\ types[1] # last.U

\* C4: a type/occurrence-qualified call whose type is not declared, or whose
\* N is not below the multiplicity of U, throws invalid_argument and acts on
\* no node.
C4_InvalidRequestFails ==
    (last.op \in OccOps /\ last.N >= Count(types, last.U))
        => /\ last.outcome = "invalid_argument"
           /\ last.node = 0
           /\ last.delta = {}

\* C5: the shared counter is 0 whenever a type/occurrence-qualified public
\* method has returned or thrown.
C5_CounterZeroOnEveryExit ==
    last.op \in OccOps \cup {"type"} => counter_ = 0

\* C6: after any sequence of successful type/occurrence-qualified calls the
\* counter is 0.  By induction on the sequence: the constructor leaves 0, and
\* a successful call entered with 0 leaves 0.
C6_SuccessKeepsCounterZero ==
    /\ last = NoCall => counter_ = 0
    /\ (last.op \in OccOps \cup {"type"} /\ last.c0 = 0 /\ last.outcome = "ok")
          => counter_ = 0

\* a successful call that passed a first node of its type (counting it) on
\* the way to the one it acted on
C6_Witness ==
    /\ last.op = "push_back"
    /\ last.outcome = "ok"
    /\ last.c0 = 0
    /\ last.N = 1
    /\ last.node = 2
    /\ counter_ = 0

\* the node the call op<U, N> acts on when made on a freshly constructed
\* aggregate of the same TypeList
FreshNode(op, U, N) ==
    IF op = "assign" THEN WalkAssign(kind, types, 0, U).node
    ELSE Walk(kind, types, 0, U, N).node

\* C7: for N below the multiplicity of U, a call for (U, N) acts on the same
\* node whatever calls went before it, failed ones included.
C7_SameNodeWhateverWentBefore ==
    (last.op \in OccOps /\ last.N < Count(types, last.U))
        => /\ last.outcome = "ok"
           /\ last.node = FreshNode(last.op, last.U, last.N)

\* C8: for N below the multiplicity of U, push_back<U, N>(v) succeeds and
\* makes the container of occurrence N of U one element longer, and a
\* back<U, N>() that follows it returns v.
C8_PushBackThenBack ==
    [][ /\ (last'.op = "push_back" /\ last'.N < Count(types, last'.U))
            => LET p == NthPosition(types, last'.U, last'.N)
               IN  /\ last'.outcome = "ok"
                   /\ Len(container_'[p]) = Len(container_[p]) + 1
        /\ (/\ last.op = "push_back"
            /\ last.outcome = "ok"
            /\ last'.op = "back"
            /\ last'.U = last.U
            /\ last'.N = last.N)
            => /\ last'.outcome = "ok"
               /\ last'.ret = last.val
      ]_vars

\* C9: contains<U>() and multiplicity<U>() never throw and change neither
\* the counter nor any backing container, whether U is declared or not.
C9_QueriesChangeNothing ==
    last.op \in {"contains", "multiplicity"}
        => /\ last.outcome = "ok"
           /\ last.delta = {}
           /\ counter_ = last.c0

\* a query for an undeclared type on an aggregate that holds elements and
\* whose counter a failed call has left above 0
C9_Witness ==
    /\ last.op = "multiplicity"
    /\ last.ret = 0
    /\ counter_ > 0
    /\ Total(container_) > 0

C11_RangeOverloadsResolveNth ==
    (last.op \in {"assign", "insert"} /\ last.c0 = 0)
        => IF last.N < Count(types, last.U)
           THEN /\ last.outcome = "ok"
                /\ last.node = NthPosition(types, last.U, last.N)
                /\ last.delta \subseteq {last.node}
           ELSE /\ last.outcome = "invalid_argument"
                /\ last.delta = {}

\* the slots (1-based) of obj that hold a payload of type T, their number and
\* the slot of filtered index i among them
Slots(obj, T) == {p \in 1..Len(obj) : obj[p].type = T}

FilteredCount(obj, T) == Cardinality(Slots(obj, T))

NthSlot(obj, T, i) ==
    CHOOSE p \in Slots(obj, T) :
        Cardinality({q \in Slots(obj, T) : q < p}) = i

\* the payloads of the elements of type T, in sequence order
RECURSIVE Filtered(_, _, _)
Filtered(obj, T, p) ==
    IF p > Len(obj) THEN <<>>
    ELSE IF obj[p].type = T THEN <<obj[p].value>> \o Filtered(obj, T, p + 1)
    ELSE Filtered(obj, T, p + 1)

\* C12: a loop from begin<T>() to end<T>() with ++ visits exactly the
\* elements holding a T, each once and in sequence order, and *itr gives
\* their payloads; on the container of the example the strings come out as
\* a, b, c, d.
C12_IterationVisitsTheType ==
    last.op = "for_each"
        => /\ Len(last.ret) = FilteredCount(last.before, last.A)
           /\ \A k \in 1..Len(last.ret) :
                 /\ last.ret[k].slot = NthSlot(last.before, last.A, k - 1)
                 /\ last.ret[k].value = last.before[last.ret[k].slot].value
           /\ (last.before = ExampleObject /\ last.A = "string")
                 => [k \in 1..Len(last.ret) |-> last.ret[k].value]
                        = <<"a", "b", "c", "d">>

C12_Witness ==
    /\ last.op = "for_each"
    /\ last.before = ExampleObject
    /\ last.A = "string"
    /\ Len(last.ret) = 4
    /\ last.ret[4].slot = 9

\* C13: swap<T>(i, j) with i and j below size<T>() returns true, exchanges
\* the elements at the slots of the i-th and the j-th T and leaves every
\* other slot and the length alone; on the example, swapping strings 0 and
\* 2 leaves c, b, a, d in the string slots.
C13_SwapSameType ==
    (/\ last.op = "swap_same"
     /\ last.i < FilteredCount(last.before, last.A)
     /\ last.j < FilteredCount(last.before, last.A))
        => LET pi == NthSlot(last.before, last.A, last.i)
               pj == NthSlot(last.before, last.A, last.j)
           IN  /\ last.outcome = "ok"
               /\ last.ret = TRUE
               /\ Len(object) = Len(last.before)
               /\ object[pi] = last.before[pj]
               /\ object[pj] = last.before[pi]
               /\ \A p \in DOMAIN object \ {pi, pj} : object[p] = last.before[p]
               /\ (/\ last.before = ExampleObject
                   /\ last.A = "string"
                   /\ {last.i, last.j} = {0, 2})
                     => /\ Filtered(object, "string", 1) = <<"c", "b", "a", "d">>
                        /\ Slots(object, "string") = {3, 5, 6, 9}

C13_Witness ==
    /\ last.op = "swap_same"
    /\ last.before = ExampleObject
    /\ last.A = "string"
    /\ last.i = 0
    /\ last.j = 2
    /\ last.ret = TRUE
    /\ object[3].value = "c"

\* C14: a swap<T>(i, j) with valid i and j, followed by the same
\* swap<T>(i, j), leaves the sequence exactly as it was before the first.
C14_SwapTwiceRestores ==
    [][ (/\ last.op = "swap_same"
         /\ last.outcome = "ok"
         /\ last.ret = TRUE
         /\ last'.op = "swap_same"
         /\ last'.A = last.A
         /\ last'.i = last.i
         /\ last'.j = last.j)
            => /\ last'.outcome = "ok"
               /\ last'.ret = TRUE
               /\ object' = last.before
      ]_vars

\* the example's container after strings 1 and 2 were swapped and swapped
\* back
C14_Witness ==
    /\ last.op = "swap_same"
    /\ last.ret = TRUE
    /\ last.A = "string"
    /\ last.i = 1
    /\ last.j = 2
    /\ object = ExampleObject
    /\ last.before # ExampleObject

\* C15: swap<A, B>(i, j) with i not below size<A>() or j not below size<B>()
\* returns false, throws nothing and leaves the sequence as it was.
C15_SwapOutOfRangeIsFalse ==
    (/\ last.op \in {"swap", "swap_same"}
     /\ \/ last.i >= FilteredCount(last.before, last.A)
        \/ last.j >= FilteredCount(last.before, last.B))
        => /\ last.outcome = "ok"
           /\ last.ret = FALSE
           /\ object = last.before

\* i is valid and j is exactly size<B>()
C15_Witness ==
    /\ last.op = "swap"
    /\ last.A # last.B
    /\ last.i < FilteredCount(last.before, last.A)
    /\ last.j = FilteredCount(last.before, last.B)
    /\ last.j > 0
    /\ last.ret = FALSE
    /\ object = last.before

\* C16: get<T>(i) returns the payload of the i-th element of type T when i
\* is below size<T>() and throws out_of_range for every other i.
C16_GetOrOutOfRange ==
    last.op = "get"
        => IF last.i < FilteredCount(last.before, last.A)
           THEN /\ last.outcome = "ok"
                /\ last.slot = NthSlot(last.before, last.A, last.i)
                /\ last.ret = last.before[last.slot].value
           ELSE last.outcome = "out_of_range"

\* C17: at<T>(i) refers to the slot of the i-th element of type T, the slot
\* whose payload get<T>(i) returns, and throws out_of_range when fewer than
\* i + 1 elements of type T exist (i = last.hi * 2^32 + last.i).
C17_AtIsTheSlotOfGet ==
    last.op = "at"
        => IF last.hi = 0 /\ last.i < FilteredCount(last.before, last.A)
           THEN /\ last.outcome = "ok"
                /\ last.slot = NthSlot(last.before, last.A, last.i)
                /\ last.ret = last.before[last.slot]
                /\ adaptor_get_of(last.before, last.A, last.i)
                      = Got(last.slot, last.ret.value)
           ELSE last.outcome = "out_of_range"

\* C18: first<T>() returns the payload of the first and last<T>() of the
\* last element of type T; each throws out_of_range exactly when no element
\* of type T exists.
C18_FirstAndLast ==
    last.op \in {"first", "last"}
        => IF Slots(last.before, last.A) = {}
           THEN last.outcome = "out_of_range"
           ELSE /\ last.outcome = "ok"
                /\ last.slot \in Slots(last.before, last.A)
                /\ \A p \in Slots(last.before, last.A) :
                      IF last.op = "first" THEN last.slot <= p
                      ELSE last.slot >= p
                /\ last.ret = last.before[last.slot].value

\* a last<T>() whose element is followed by one of another type
C18_Witness ==
    /\ last.op = "last"
    /\ last.outcome = "ok"
    /\ last.slot < Len(last.before)
    /\ FilteredCount(last.before, last.A) > 1

\* C19: swap<A, B>(i, j) with A # B and valid i and j returns true; the slot
\* of the i-th A then holds what the j-th B held, the slot of the j-th B
\* what the i-th A held, and every other slot is as before.
C19_SwapAcrossTypes ==
    (/\ last.op = "swap"
     /\ last.A # last.B
     /\ last.i < FilteredCount(last.before, last.A)
     /\ last.j < FilteredCount(last.before, last.B))
        => LET pi == NthSlot(last.before, last.A, last.i)
               pj == NthSlot(last.before, last.B, last.j)
           IN  /\ last.outcome = "ok"
               /\ last.ret = TRUE
               /\ Len(object) = Len(last.before)
               /\ object[pi] = last.before[pj]
               /\ object[pj] = last.before[pi]
               /\ \A p \in DOMAIN object \ {pi, pj} : object[p] = last.before[p]

C19_Witness ==
    /\ last.op = "swap"
    /\ last.A = "int"
    /\ last.B = "string"
    /\ last.ret = TRUE
    /\ Len(object) = 3
    /\ object # last.before

\* C20: a type/occurrence-qualified call that throws because (U, N) is not
\* declared leaves every node's container as it was on entry.
C20_FailedCallChangesNothing ==
    [][ last'.outcome = "invalid_argument" => container_' = container_ ]_vars

\* a call for an undeclared type that failed on an aggregate holding elements
C20_Witness ==
    /\ last.op \in Mutators \cup {"insert"}
    /\ last.outcome = "invalid_argument"
    /\ last.U = "float"
    /\ last.delta = {}
    /\ Total(container_) > 0

\* C21: when at<U, N>(n) resolves to a node whose container holds no more
\* than n elements, the out_of_range of the container leaves the method, no
\* container has changed and the counter is 0; with n below the size the
\* element is returned.
C21_ContainerFailurePropagates ==
    (last.op = "at" /\ last.node # 0)
        => /\ counter_ = 0
           /\ last.delta = {}
           /\ IF last.val >= Len(container_[last.node])
              THEN last.outcome = "out_of_range"
              ELSE /\ last.outcome = "ok"
                   /\ last.ret = container_[last.node][last.val + 1]

\* an at() one past the end of a container that holds an element, entered
\* with a counter that an earlier failed call left above 0
C21_Witness ==
    /\ last.op = "at"
    /\ last.outcome = "out_of_range"
    /\ last.node # 0
    /\ last.val = Len(container_[last.node])
    /\ last.val > 0
    /\ last.c0 > 0
    /\ counter_ = 0

\* C23: type<N>() returns the type declared at position N for every N below
\* size() and fails for every other N.
C23_TypeOfPosition ==
    last.op = "type"
        => IF last.N < Size(kind, types)
           THEN /\ last.outcome = "ok"
                /\ last.ret = types[last.N + 1]
           ELSE last.outcome # "ok"

\* the nodes of type U in declaration order
RECURSIVE Ascending(_, _, _)
Ascending(tl, U, i) ==
    IF i > Len(tl) THEN <<>>
    ELSE IF tl[i] = U THEN <<i>> \o Ascending(tl, U, i + 1)
    ELSE Ascending(tl, U, i + 1)

\* C29: for_each<U>(hv, fn) calls fn once on each node that declares U, in
\* declaration order, and on no other node, multiplicity<U>() calls in all;
\* for_each(hv, fn) calls fn once on every node in declaration order.
C29_ForEachVisitsTheType ==
    /\ last.op = "for_each"
          => /\ last.ret = Ascending(types, last.U, 1)
             /\ Len(last.ret) = Multiplicity(kind, types, last.U)
    /\ last.op = "for_each_all"
          => last.ret = [i \in 1..Len(types) |-> i]

C29_Witness ==
    /\ last.op = "for_each"
    /\ types = ExampleTypeList
    /\ last.U = "int"
    /\ last.ret = <<1, 4, 5>>

\* --------------------------------------------------------------------- C22
\* the nodes of type U that the walk of t has already left behind
Passed(t) ==
    Cardinality({i \in 1..Len(types) : i < walker[t].node
                                        /\ types[i] = walker[t].U})

\* C22 as stated: during a walk for (U,N) that started with the counter at 0,
\* at every step the counter equals the number of nodes of type U already
\* passed, is never greater than N, and no step taken at a node whose type
\* differs from U modifies it.
C22_CounterCountsPassedNodes ==
    [][(walker[1].pc \in Walking /\ walker[1].c0 = 0)
          => /\ counter_ = Passed(1)
             /\ counter_ <= walker[1].N
             /\ (~TypeMatches(1) /\ walker[1].node <= Len(types))
                    => counter_' = counter_]_vars

\* C22 amended: the same, except that the last node of a chain in the
\* heterodeque layout, which has no next node, writes 0 to the counter when
\* it fails the walk, whatever its type.
C22_CounterCountsUntilTheWalkEnds ==
    [][(walker[1].pc \in Walking /\ walker[1].c0 = 0)
          => /\ counter_ = Passed(1)
             /\ counter_ <= walker[1].N
             /\ (~TypeMatches(1) /\ walker[1].node <= Len(types)
                                 /\ counter_' # counter_)
                    => /\ kind = "heterodeque"
                       /\ walker[1].node = Len(types)
                       /\ walker'[1].pc = "thrown"
                       /\ counter_' = 0]_vars

\* a walk begun at counter 0 stands at a node of another type after it has
\* counted one node of type U
C22_Witness ==
    /\ walker[1].pc = "at"
    /\ walker[1].c0 = 0
    /\ walker[1].node = 2
    /\ walker[1].node <= Len(types)
    /\ ~TypeMatches(1)
    /\ counter_ = 1
    /\ Passed(1) = 1

\* --------------------------------------------------------------------- C28
\* (U,N) names a node of the aggregate
Valid(U, N) == N < Count(types, U)

\* the walk of t has ended wrongly: it failed, or it stopped at another node
\* than the N-th of type U, or it left the counter non-zero
Corrupted(t) ==
    /\ walker[t].pc \in Finished
    /\ \/ walker[t].pc = "thrown"
       \/ walker[t].node # NthPosition(types, walker[t].U, walker[t].N)
       \/ counter_ # 0

\* C28: two walks on the same aggregate that interleave step by step can
\* corrupt the shared counter (the witness is such an interleaving), and it
\* is the interleaving that does it: a walk for a valid (U,N) begun at
\* counter 0 ends wrongly only if another thread was inside a call meanwhile.
C28_OnlyInterleavingCorrupts ==
    \A t \in Threads :
        (walker[t].c0 = 0 /\ Valid(walker[t].U, walker[t].N) /\ Corrupted(t))
            => ~walker[t].alone

\* two walks for valid (U,N), both entered at counter 0: one has returned a
\* node that is not the N-th of its type
C28_Witness ==
    \E t \in Threads : \E o \in Threads \ {t} :
        /\ walker[t].pc = "returned"
        /\ walker[t].c0 = 0 /\ walker[o].c0 = 0
        /\ walker[o].pc # "idle"
        /\ Valid(walker[t].U, walker[t].N)
        /\ Valid(walker[o].U, walker[o].N)
        /\ walker[t].node # NthPosition(types, walker[t].U, walker[t].N)

\* --------------------------------------------------------------------- C24
\* C24: after a = b on two distinct aggregates every node of a holds what
\* the node of b held, b is unchanged, and a holds containers of its own, so
\* that a mutation of a afterwards does not change b.
C24_AssignmentIsADeepCopy ==
    [][/\ (last'.op = "operator=" /\ last'.U # last'.val)
            => /\ last'.outcome = "ok"
               /\ ValueOf(aggregate', heap', last'.U)
                      = ValueOf(aggregate, heap, last'.val)
               /\ ValueOf(aggregate', heap', last'.val)
                      = ValueOf(aggregate, heap, last'.val)
               /\ \A i \in 1..Len(types) :
                      aggregate'[last'.U].container_[i]
                          # aggregate'[last'.val].container_[i]
       /\ (/\ last.op = "operator=" /\ last.U # last.val
           /\ last'.op = "container_push_back" /\ last'.val = last.U)
            => ValueOf(aggregate', heap', last.val)
                   = ValueOf(aggregate, heap, last.val)]_vars

\* --------------------------------------------------------------------- C25
\* C25: a.swap(b) exchanges the contents of the nodes pairwise at every
\* position, leaves the counter of each aggregate in place and at 0, and a
\* second a.swap(b) restores both.
C25_SwapExchangesContainers ==
    [][last'.op = "swap"
          => LET a == last'.U
                 b == last'.val
             IN  /\ ValueOf(aggregate', heap', a) = ValueOf(aggregate, heap, b)
                 /\ ValueOf(aggregate', heap', b) = ValueOf(aggregate, heap, a)
                 /\ aggregate'[a].counter_ = aggregate[a].counter_
                 /\ aggregate'[b].counter_ = aggregate[b].counter_
                 /\ heap'[aggregate'[a].counter_].value = 0
                 /\ heap'[aggregate'[b].counter_].value = 0
                 /\ swap_nodes(aggregate', a, b, 1) = aggregate]_vars

\* --------------------------------------------------------------------- C26
\* C26: whatever constructions, copies, assignments and swaps went before,
\* every node of every live aggregate holds one container that is not null
\* and not released, and no container or counter cell is held by two
\* different aggregates.
C26_NoCellHeldTwice ==
    /\ \A x \in Names : \A i \in 1..Len(types) :
          aggregate[x].live
              => /\ aggregate[x].container_[i] \in DOMAIN heap
                 /\ heap[aggregate[x].container_[i]].what = "container"
                 /\ heap[aggregate[x].container_[i]].released = 0
    /\ \A x \in Names : \A y \in Names \ {x} :
          (aggregate[x].live /\ aggregate[y].live)
              => CellsOf(aggregate, x) \cap CellsOf(aggregate, y) = {}

\* --------------------------------------------------------------------- C27
\* C27: when an aggregate is destroyed, the container of each of its nodes
\* is released exactly once and its counter cell exactly once, whatever the
\* length of the chain.
C27_ReleasedExactlyOnce ==
    [][last'.op = "destructor"
          => \A p \in CellsOf(aggregate, last'.U) : heap'[p].released = 1]_vars

\* --------------------------------------------------------------------- C30
\* C30: a = a leaves the contents of every node of a as they were and reads
\* no container after its release.
C30_SelfAssignmentKeepsContents ==
    [][(last'.op = "operator=" /\ last'.U = last'.val)
          => /\ last'.outcome = "ok"
             /\ ValueOf(aggregate', heap', last'.U)
                    = ValueOf(aggregate, heap, last'.U)
             /\ \A p \in DOMAIN heap' : ~heap'[p].stale]_vars

====
